---------------------------- MODULE Spec2Model ----------------------------
(***************************************************************************)
(* A model of the ElmapiCMS JavaScript SDK (src/test-package.js): the      *)
(* error classes, createApiError, createNetworkError, the ApiClient with   *)
(* its request pipeline and resource operations, and createClient.         *)
(*                                                                         *)
(* JavaScript values are tagged records ([t |-> "string", s |-> ...]),     *)
(* text that the code takes apart (the base URL, a request URL) is a       *)
(* sequence of characters and path segments, every other text is a string. *)
(***************************************************************************)
EXTENDS Integers, Sequences, FiniteSets, TLC

(***************************************************************************)
(* Bounds of the model.                                                    *)
(***************************************************************************)
\* number of call slots of the caller
MaxCalls == 2
\* longest base URL handed to a constructor, in characters
MaxBaseLen == 2

(***************************************************************************)
(* JavaScript values.                                                      *)
(***************************************************************************)
Undef == [t |-> "undefined"]
Null == [t |-> "null"]
Str(s) == [t |-> "string", s |-> s]
Num(n) == [t |-> "number", n |-> n]
Bool(b) == [t |-> "boolean", b |-> b]
\* an object literal {} ; its properties are further record fields
EmptyObj == [t |-> "object"]

\* ToBoolean: what `if (v)`, `!v`, `a || b` and `c ? x : y` test
Truthy(v) ==
    CASE v.t = "undefined" -> FALSE
      [] v.t = "null" -> FALSE
      [] v.t = "string" -> v.s # ""
      [] v.t = "number" -> v.n # 0
      [] v.t = "boolean" -> v.b
      [] OTHER -> TRUE

\* a || b
Or(a, b) == IF Truthy(a) THEN a ELSE b

\* v.k on a value that is not null or undefined: a primitive has none of the
\* properties the code reads (message, error, details, code)
Get(v, k) == IF v.t = "object" /\ k \in DOMAIN v THEN v[k] ELSE Undef

\* v.k raises a TypeError on null and undefined
GetThrows(v) == v.t \in {"undefined", "null"}

\* String(v), as the Error constructor and a template literal apply it
ToStr(v) ==
    CASE v.t = "string" -> v.s
      [] v.t = "number" -> ToString(v.n)
      [] v.t = "boolean" -> IF v.b THEN "true" ELSE "false"
      [] v.t = "undefined" -> "undefined"
      [] v.t = "null" -> "null"
      [] OTHER -> "[object Object]"

(***************************************************************************)
(* JSON.parse on the response texts of the model: ok is FALSE where it     *)
(* raises a SyntaxError.                                                   *)
(***************************************************************************)
JSONparse(s) ==
    CASE s = "null" -> [ok |-> TRUE, v |-> Null]
      [] s = "5" -> [ok |-> TRUE, v |-> Num(5)]
      [] s = "\"\"" -> [ok |-> TRUE, v |-> Str("")]
      [] s = "\"oops\"" -> [ok |-> TRUE, v |-> Str("oops")]
      [] s = "{}" -> [ok |-> TRUE, v |-> EmptyObj]
      [] s = "{\"message\":\"Bad token\"}" ->
            [ok |-> TRUE, v |-> [t |-> "object", message |-> Str("Bad token")]]
      [] s = "{\"error\":\"Denied\"}" ->
            [ok |-> TRUE, v |-> [t |-> "object", error |-> Str("Denied")]]
      [] s = "{\"message\":\"Invalid\",\"code\":\"E42\",\"details\":\"title is required\"}" ->
            [ok |-> TRUE, v |-> [t |-> "object", message |-> Str("Invalid"),
                                 code |-> Str("E42"),
                                 details |-> Str("title is required")]]
      [] OTHER -> [ok |-> FALSE, v |-> Undef]

(***************************************************************************)
(* The error classes.  An error is a record; inst tells the instances of   *)
(* one call apart (the n-th error object constructed during the call).     *)
(***************************************************************************)
ElmapiError(name, message, statusCode, code, details, requestInfo, inst) ==
    [name |-> name, message |-> message, statusCode |-> statusCode,
     code |-> code, details |-> details, requestInfo |-> requestInfo,
     inst |-> inst]

AuthenticationError(message, requestInfo, inst) ==
    ElmapiError("AuthenticationError", message, Num(401),
                Str("AUTHENTICATION_ERROR"), Undef, requestInfo, inst)

AuthorizationError(message, requestInfo, inst) ==
    ElmapiError("AuthorizationError", message, Num(403),
                Str("AUTHORIZATION_ERROR"), Undef, requestInfo, inst)

NotFoundError(resource, requestInfo, inst) ==
    ElmapiError("NotFoundError", resource \o " not found.", Num(404),
                Str("NOT_FOUND"), Undef, requestInfo, inst)

\* a faulty ValidationError, which does not pass the details on
ValidationErrorNoDetails(message, details, requestInfo, inst) ==
    ElmapiError("ValidationError", message, Num(422),
                Str("VALIDATION_ERROR"), Undef, requestInfo, inst)

ValidationError(message, details, requestInfo, inst) ==
    ElmapiError("ValidationError", message, Num(422),
                Str("VALIDATION_ERROR"), details, requestInfo, inst)

RateLimitError(message, requestInfo, inst) ==
    ElmapiError("RateLimitError", message, Num(429),
                Str("RATE_LIMIT_ERROR"), Undef, requestInfo, inst)

ServerError(message, requestInfo, inst) ==
    ElmapiError("ServerError", message, Num(500),
                Str("SERVER_ERROR"), Undef, requestInfo, inst)

NetworkError(message, requestInfo, inst) ==
    ElmapiError("NetworkError", message, Undef,
                Str("NETWORK_ERROR"), Undef, requestInfo, inst)

TimeoutError(timeout, requestInfo, inst) ==
    ElmapiError("TimeoutError",
                "Request timed out after " \o ToStr(timeout) \o "ms.", Undef,
                Str("TIMEOUT_ERROR"), Undef, requestInfo, inst)

\* the TypeError the runtime raises for a property read on null
TypeError(inst) ==
    [name |-> "TypeError",
     message |-> "Cannot read properties of null (reading 'message')",
     statusCode |-> Undef, code |-> Undef, details |-> Undef,
     requestInfo |-> Undef, inst |-> inst]

\* the names of ElmapiError and its subclasses: e instanceof ElmapiError
ElmapiNames ==
    {"ElmapiError", "AuthenticationError", "AuthorizationError",
     "NotFoundError", "ValidationError", "RateLimitError", "ServerError",
     "NetworkError", "TimeoutError"}


(***************************************************************************)
(* createApiError: the error for a failed exchange that has a response.    *)
(* The result is what leaves the function, returned or raised.             *)
(***************************************************************************)
createApiError(error, requestInfo, inst) ==
    LET statusCode == error.response.status
        responseBody == Or(error.response.body, error.response.text)
        parsed == JSONparse(responseBody.s)
        errorData ==
            IF Truthy(responseBody)
            THEN IF responseBody.t = "string"
                 THEN IF parsed.ok
                      THEN parsed.v
                      ELSE [t |-> "object", message |-> responseBody]
                 ELSE responseBody
            ELSE EmptyObj
        message ==
            ToStr(Or(Or(Or(Get(errorData, "message"), Get(errorData, "error")),
                        error.message),
                     Str("An unknown error occurred")))
        details == Get(errorData, "details")
        code == Get(errorData, "code")
    IN  IF GetThrows(errorData)
        THEN TypeError(inst)
        ELSE CASE statusCode = Num(401) ->
                    AuthenticationError(message, requestInfo, inst)
               [] statusCode = Num(403) ->
                    AuthorizationError(message, requestInfo, inst)
               [] statusCode = Num(404) ->
                    NotFoundError("Resource", requestInfo, inst)
               [] statusCode = Num(422) ->
                    ValidationError(message, details, requestInfo, inst)
               [] statusCode = Num(429) ->
                    RateLimitError(message, requestInfo, inst)
               [] statusCode \in {Num(500), Num(502), Num(503), Num(504)} ->
                    ServerError(message, requestInfo, inst)
               [] OTHER ->
                    ElmapiError("ElmapiError", message, statusCode, code,
                                details, requestInfo, inst)

\* a faulty createNetworkError, which tests connectivity before the timeout
createNetworkErrorConnectivityFirst(error, requestInfo, inst) ==
    IF error.code = Str("ENOTFOUND") \/ error.code = Str("ECONNREFUSED")
    THEN NetworkError("Unable to connect to the server. Please check your internet connection and the API URL.",
                      requestInfo, inst)
    ELSE IF error.code = Str("ECONNABORTED") \/ Truthy(error.timeout)
    THEN TimeoutError(Or(requestInfo.timeout, Num(30000)), requestInfo, inst)
    ELSE NetworkError(ToStr(Or(error.message, Str("Network error occurred"))),
                      requestInfo, inst)

(***************************************************************************)
(* createNetworkError: the error for an exchange that got no response.     *)
(***************************************************************************)
createNetworkError(error, requestInfo, inst) ==
    IF error.code = Str("ECONNABORTED") \/ Truthy(error.timeout)
    THEN TimeoutError(Or(requestInfo.timeout, Num(30000)), requestInfo, inst)
    ELSE IF error.code = Str("ENOTFOUND") \/ error.code = Str("ECONNREFUSED")
    THEN NetworkError("Unable to connect to the server. Please check your internet connection and the API URL.",
                      requestInfo, inst)
    ELSE NetworkError(ToStr(Or(error.message, Str("Network error occurred"))),
                      requestInfo, inst)

\* the catch block of request() and of uploadAsset()
catchError(error, requestInfo, inst) ==
    IF Truthy(error.response)
    THEN createApiError(error, requestInfo, inst)
    ELSE createNetworkError(error, requestInfo, inst)

(***************************************************************************)
(* The client.                                                             *)
(***************************************************************************)
\* a faulty stripping, which removes one trailing slash only
StripOneSlash(s) ==
    IF s # <<>> /\ s[Len(s)] = "/" THEN SubSeq(s, 1, Len(s) - 1) ELSE s

RECURSIVE StripTrailingSlashes(_)
\* s.replace(/\/+$/, '')
StripTrailingSlashes(s) ==
    IF s # <<>> /\ s[Len(s)] = "/"
    THEN StripTrailingSlashes(SubSeq(s, 1, Len(s) - 1))
    ELSE s

\* new ApiClient(config)
ApiClient(config) ==
    [basePath |-> StripTrailingSlashes(config.basePath),
     accessToken |-> Or(config.accessToken, Str("")),
     projectId |-> config.projectId,
     timeout |-> Or(config.timeout, Num(30000))]

RECURSIVE Join(_, _)
\* errors.join(sep)
Join(errors, sep) ==
    IF errors = <<>> THEN ""
    ELSE IF Len(errors) = 1 THEN errors[1]
    ELSE errors[1] \o sep \o Join(Tail(errors), sep)

\* a faulty validation, which stops at the first violated constraint
configurationErrorsFirst(client) ==
    IF client.basePath = <<>> THEN <<"Base path is required">>
    ELSE IF ~Truthy(client.projectId) THEN <<"Project ID is required">>
    ELSE <<>>

\* client.validateConfiguration(): the errors it collects
configurationErrors(client) ==
    (IF client.basePath = <<>> THEN <<"Base path is required">> ELSE <<>>)
    \o (IF ~Truthy(client.projectId) THEN <<"Project ID is required">> ELSE <<>>)

\* client.validateConfiguration(): <<>> when it returns, else what it throws
validateConfiguration(client) ==
    LET errors == configurationErrors(client)
    IN  IF Len(errors) > 0
        THEN <<ValidationError("Invalid client configuration: " \o Join(errors, ", "),
                               [t |-> "object", errors |-> errors], Undef, 1)>>
        ELSE <<>>

\* client.getDebugInfo()
getDebugInfo(client) ==
    [t |-> "object",
     basePath |-> client.basePath,
     hasAccessToken |-> Bool(Truthy(client.accessToken)),
     projectId |-> client.projectId,
     timeout |-> client.timeout]

\* createClient(baseUrl, apiToken, projectId, config): the client it returns
\* and what it throws
createClient(baseUrl, apiToken, projectId, config) ==
    LET client == ApiClient([basePath |-> baseUrl, accessToken |-> apiToken,
                             projectId |-> projectId,
                             timeout |-> Or(config.timeout, Num(30000))])
        thrown == validateConfiguration(client)
    IN  IF thrown # <<>>
        THEN [client |-> <<>>,
              thrown |-> IF thrown[1].name = "ValidationError"
                         THEN thrown
                         ELSE <<ValidationError("Failed to validate client configuration",
                                                Undef, Undef, 2)>>]
        ELSE [client |-> <<client>>, thrown |-> <<>>]

(***************************************************************************)
(* The request pipeline.  A request is what is handed to the transport:    *)
(* headers as name-value pairs, timeout <<ms>> when request.timeout(ms)    *)
(* was called and <<>> when it was not.                                    *)
(***************************************************************************)
\* the Authorization header, set when the client has a token
authHeader(client) ==
    IF Truthy(client.accessToken)
    THEN {<<"Authorization", "Bearer " \o ToStr(client.accessToken)>>}
    ELSE {}

\* request(method, path, params = {}, data) up to its await
request(client, method, path, paramsArg, data) ==
    LET params == IF paramsArg = Undef THEN EmptyObj ELSE paramsArg
        url == client.basePath \o path
    IN  [req |-> [method |-> method,
                  url |-> url,
                  headers |-> authHeader(client)
                              \cup {<<"project-id", ToStr(client.projectId)>>}
                              \cup {<<"Accept", "application/json">>},
                  query |-> IF Truthy(params) THEN <<params>> ELSE <<>>,
                  body |-> IF Truthy(data) THEN <<data>> ELSE <<>>,
                  attach |-> <<>>,
                  field |-> <<>>,
                  timeout |-> <<client.timeout>>],
         requestInfo |-> [t |-> "object", method |-> method, url |-> url,
                          params |-> params, data |-> data,
                          timeout |-> client.timeout]]

\* JSON.stringify on the metadata values of the model
JSONstringify(v) ==
    IF v = [t |-> "object", alt |-> Str("Logo")]
    THEN "{\"alt\":\"Logo\"}"
    ELSE "{}"

\* a faulty uploadAsset, which leaves out the project-id header
uploadAssetNoProjectId(client, file, metadata) ==
    LET url == client.basePath \o <<"/", "files">>
    IN  [req |-> [method |-> "POST", url |-> url,
                  headers |-> authHeader(client),
                  query |-> <<>>, body |-> <<>>, attach |-> <<file>>,
                  field |-> <<>>, timeout |-> <<>>],
         requestInfo |-> [t |-> "object", method |-> "POST", url |-> url,
                          params |-> EmptyObj, data |-> Undef,
                          timeout |-> client.timeout]]

\* uploadAsset(file, metadata) up to its await
uploadAsset(client, file, metadata) ==
    LET url == client.basePath \o <<"/", "files">>
    IN  [req |-> [method |-> "POST",
                  url |-> url,
                  headers |-> authHeader(client)
                              \cup {<<"project-id", ToStr(client.projectId)>>},
                  query |-> <<>>,
                  body |-> <<>>,
                  attach |-> <<file>>,
                  field |-> IF Truthy(metadata)
                            THEN <<JSONstringify(metadata)>>
                            ELSE <<>>,
                  timeout |-> <<>>],
         requestInfo |-> [t |-> "object", method |-> "POST", url |-> url,
                          params |-> EmptyObj,
                          data |-> [t |-> "object",
                                    file |-> Or(Get(file, "name"), Str("file")),
                                    metadata |-> metadata],
                          timeout |-> client.timeout]]

getProject(client, params) ==
    request(client, "GET", <<"/">>, params, Undef)

getCollections(client) ==
    request(client, "GET", <<"/", "collections">>, Undef, Undef)

getCollection(client, collectionSlug) ==
    request(client, "GET", <<"/", "collections", "/", collectionSlug>>, Undef, Undef)

getEntries(client, collectionSlug, params) ==
    request(client, "GET", <<"/", collectionSlug>>, params, Undef)

getEntry(client, collectionSlug, uuid) ==
    request(client, "GET", <<"/", collectionSlug, "/", uuid>>, Undef, Undef)

createEntry(client, collectionSlug, data) ==
    request(client, "POST", <<"/", collectionSlug>>, EmptyObj, data)

updateEntry(client, collectionSlug, uuid, data) ==
    request(client, "PUT", <<"/", collectionSlug, "/", uuid>>, EmptyObj, data)

patchEntry(client, collectionSlug, uuid, data) ==
    request(client, "PATCH", <<"/", collectionSlug, "/", uuid>>, EmptyObj, data)

\* a faulty forceParams, which sends force whatever its value
forceParamsAlways(force) == [t |-> "object", force |-> force]

\* const params = force ? { force } : {}
forceParams(force) ==
    IF Truthy(force) THEN [t |-> "object", force |-> force] ELSE EmptyObj

deleteEntry(client, collectionSlug, uuid, force) ==
    request(client, "DELETE", <<"/", collectionSlug, "/", uuid>>,
            forceParams(force), Undef)

getAssets(client, params) ==
    request(client, "GET", <<"/", "files">>, params, Undef)

getAsset(client, identifier) ==
    request(client, "GET", <<"/", "files", "/", identifier>>, Undef, Undef)

getAssetByFilename(client, filename) ==
    request(client, "GET", <<"/", "files", "/", "name", "/", filename>>, Undef, Undef)

deleteAsset(client, identifier, force) ==
    request(client, "DELETE", <<"/", "files", "/", identifier>>,
            forceParams(force), Undef)

(***************************************************************************)
(* The catch blocks of the resource-aware operations: what each rethrows   *)
(* for the error its request raised.                                       *)
(***************************************************************************)
getCollectionCatch(collectionSlug, error) ==
    IF error.name = "NotFoundError"
    THEN NotFoundError("Collection '" \o collectionSlug \o "'",
                       error.requestInfo, error.inst + 1)
    ELSE error

\* a faulty catch block, which relabels every error of the request
getEntryCatchRelabelAll(collectionSlug, uuid, error) ==
    NotFoundError("Entry '" \o uuid \o "' in collection '" \o collectionSlug \o "'",
                  error.requestInfo, error.inst + 1)

getEntryCatch(collectionSlug, uuid, error) ==
    IF error.name = "NotFoundError"
    THEN NotFoundError("Entry '" \o uuid \o "' in collection '" \o collectionSlug \o "'",
                       error.requestInfo, error.inst + 1)
    ELSE error

getAssetCatch(identifier, error) ==
    IF error.name = "NotFoundError"
    THEN NotFoundError("Asset '" \o identifier \o "'",
                       error.requestInfo, error.inst + 1)
    ELSE error

getAssetByFilenameCatch(filename, error) ==
    IF error.name = "NotFoundError"
    THEN NotFoundError("Asset with filename '" \o filename \o "'",
                       error.requestInfo, error.inst + 1)
    ELSE error

(***************************************************************************)
(* Inputs of the model.                                                    *)
(***************************************************************************)
Calls == 1 .. MaxCalls

RECURSIVE SeqsUpTo(_, _)
\* the sequences over S of length at most n
SeqsUpTo(S, n) ==
    IF n = 0 THEN {<<>>}
    ELSE LET shorter == SeqsUpTo(S, n - 1)
         IN  shorter \cup {Append(q, x) : q \in shorter, x \in S}

\* base URLs: "h" stands for any character but the slash
BaseUrls == SeqsUpTo({"h", "/"}, MaxBaseLen)

\* token, project id and timeout option handed to a constructor
Credentials ==
    {[apiToken |-> Str("tok"), projectId |-> Str("p1"), timeout |-> Undef],
     [apiToken |-> Undef, projectId |-> Str("p1"), timeout |-> Num(5000)],
     [apiToken |-> Str(""), projectId |-> Str(""), timeout |-> Undef]}

Shape(op, slug, id, force, params, data, file) ==
    [op |-> op, slug |-> slug, id |-> id, force |-> force, params |-> params,
     data |-> data, file |-> file]

NoCall == Shape("none", "", "", Undef, Undef, Undef, Undef)

Forces == {Undef, Bool(FALSE), Bool(TRUE), Num(1)}
SomeParams == [t |-> "object", limit |-> Num(10)]
SomeData == [t |-> "object", title |-> Str("Hello")]
SomeFile == [t |-> "object", name |-> Str("logo.png")]
SomeBuffer == [t |-> "object"]
SomeMetadata == [t |-> "object", alt |-> Str("Logo")]

\* the calls that go to the backend
HttpCalls ==
    {Shape("request", "", "", Undef, SomeParams, SomeData, Undef),
     Shape("getProject", "", "", Undef, Undef, Undef, Undef),
     Shape("getCollections", "", "", Undef, Undef, Undef, Undef),
     Shape("getCollection", "blog", "", Undef, Undef, Undef, Undef),
     Shape("getEntries", "blog", "", Undef, SomeParams, Undef, Undef),
     Shape("getEntry", "blog", "u1", Undef, Undef, Undef, Undef),
     Shape("createEntry", "blog", "", Undef, Undef, SomeData, Undef),
     Shape("updateEntry", "blog", "u1", Undef, Undef, SomeData, Undef),
     Shape("patchEntry", "blog", "u1", Undef, Undef, SomeData, Undef),
     Shape("getAssets", "", "", Undef, Undef, Undef, Undef),
     Shape("getAsset", "", "a1", Undef, Undef, Undef, Undef),
     Shape("getAssetByFilename", "", "f.png", Undef, Undef, Undef, Undef),
     Shape("uploadAsset", "", "", Undef, Undef, SomeMetadata, SomeFile),
     Shape("uploadAsset", "", "", Undef, Undef, Undef, SomeBuffer)}
    \cup {Shape("deleteEntry", "blog", "u1", f, Undef, Undef, Undef) : f \in Forces}
    \cup {Shape("deleteAsset", "", "a1", f, Undef, Undef, Undef) : f \in Forces}

\* response statuses that superagent reports as errors
ErrorStatuses == {400, 401, 403, 404, 422, 429, 500, 501, 502, 503, 504}

Body(body, text) == [body |-> body, text |-> text]

\* response bodies as superagent hands them over: the parsed body and the text
ErrorBodies ==
    {Body(Undef, Undef),
     Body(Undef, Str("")),
     Body([t |-> "object", message |-> Str("Bad token")],
          Str("{\"message\":\"Bad token\"}")),
     Body([t |-> "object", error |-> Str("Denied")], Str("{\"error\":\"Denied\"}")),
     Body([t |-> "object", message |-> Str("Invalid"), code |-> Str("E42"),
           details |-> Str("title is required")],
          Str("{\"message\":\"Invalid\",\"code\":\"E42\",\"details\":\"title is required\"}")),
     Body(Null, Str("null")),
     Body(Num(5), Str("5")),
     Body(Str("oops"), Str("\"oops\"")),
     Body(EmptyObj, Str("<html>")),
     Body(Null, Str("<html>"))}

\* error.message of a failed exchange that has a response
HttpMessages == {Str(""), Str("Unsuccessful HTTP response")}

SuccessBodies == {EmptyObj, [t |-> "object", data |-> Str("payload")]}

TransportCodes ==
    {Undef, Str("ECONNABORTED"), Str("ENOTFOUND"), Str("ECONNREFUSED"),
     Str("ECONNRESET")}
TransportMessages == {Str(""), Str("socket hang up")}

(***************************************************************************)
(* The state.                                                              *)
(***************************************************************************)
VARIABLES
    clients,    \* the client instances that exist
    ctor,       \* <<>> or the constructor call that just ended: its arguments
                \* and what it threw
    pc,         \* per call slot: "idle", "awaiting" (suspended at await), "settled"
    callOf,     \* per call slot: the operation called and its arguments
    target,     \* per call slot: <<>> or the client the call was made on
    wire,       \* per call slot: the HTTP requests the call has sent
    info,       \* per call slot: <<>> or the requestInfo of the call
    exch,       \* per call slot: <<>> or the outcome of the exchange
    result      \* per call slot: what the call returned, raised inside, threw

vars == <<clients, ctor, pc, callOf, target, wire, info, exch, result>>

NoResult == [returned |-> <<>>, raised |-> <<>>, thrown |-> <<>>]

Init ==
    /\ clients = {}
    /\ ctor = <<>>
    /\ pc = [c \in Calls |-> "idle"]
    /\ callOf = [c \in Calls |-> NoCall]
    /\ target = [c \in Calls |-> <<>>]
    /\ wire = [c \in Calls |-> <<>>]
    /\ info = [c \in Calls |-> <<>>]
    /\ exch = [c \in Calls |-> <<>>]
    /\ result = [c \in Calls |-> NoResult]

\* createClient(baseUrl, apiToken, projectId, config)
CreateClient ==
    /\ ctor = <<>>
    /\ clients = {}
    /\ \E baseUrl \in BaseUrls, cr \in Credentials :
          LET made == createClient(baseUrl, cr.apiToken, cr.projectId,
                                   [t |-> "object", timeout |-> cr.timeout])
          IN  /\ clients' = {made.client[i] : i \in DOMAIN made.client}
              /\ ctor' = <<[via |-> "createClient", baseUrl |-> baseUrl,
                            apiToken |-> cr.apiToken, projectId |-> cr.projectId,
                            timeout |-> cr.timeout, thrown |-> made.thrown]>>
    /\ UNCHANGED <<pc, callOf, target, wire, info, exch, result>>

\* new ApiClient(config)
NewApiClient ==
    /\ ctor = <<>>
    /\ clients = {}
    /\ \E baseUrl \in BaseUrls, cr \in Credentials :
          /\ clients' = {ApiClient([basePath |-> baseUrl,
                                    accessToken |-> cr.apiToken,
                                    projectId |-> cr.projectId,
                                    timeout |-> cr.timeout])}
          /\ ctor' = <<[via |-> "ApiClient", baseUrl |-> baseUrl,
                        apiToken |-> cr.apiToken, projectId |-> cr.projectId,
                        timeout |-> cr.timeout, thrown |-> <<>>]>>
    /\ UNCHANGED <<pc, callOf, target, wire, info, exch, result>>

\* the caller takes what the constructor call returned or threw
Constructed ==
    /\ ctor # <<>>
    /\ ctor' = <<>>
    /\ UNCHANGED <<clients, pc, callOf, target, wire, info, exch, result>>

\* the operation of a call, up to its await: the request sent and requestInfo
Send(client, call) ==
    CASE call.op = "request" ->
            request(client, "GET", <<"/", "custom">>, call.params, call.data)
      [] call.op = "getProject" -> getProject(client, call.params)
      [] call.op = "getCollections" -> getCollections(client)
      [] call.op = "getCollection" -> getCollection(client, call.slug)
      [] call.op = "getEntries" -> getEntries(client, call.slug, call.params)
      [] call.op = "getEntry" -> getEntry(client, call.slug, call.id)
      [] call.op = "createEntry" -> createEntry(client, call.slug, call.data)
      [] call.op = "updateEntry" -> updateEntry(client, call.slug, call.id, call.data)
      [] call.op = "patchEntry" -> patchEntry(client, call.slug, call.id, call.data)
      [] call.op = "deleteEntry" -> deleteEntry(client, call.slug, call.id, call.force)
      [] call.op = "getAssets" -> getAssets(client, call.params)
      [] call.op = "getAsset" -> getAsset(client, call.id)
      [] call.op = "getAssetByFilename" -> getAssetByFilename(client, call.id)
      [] call.op = "uploadAsset" -> uploadAsset(client, call.file, call.data)
      [] call.op = "deleteAsset" -> deleteAsset(client, call.id, call.force)

\* what the operation throws for the error its request raised
Rethrow(call, error) ==
    CASE call.op = "getCollection" -> getCollectionCatch(call.slug, error)
      [] call.op = "getEntry" -> getEntryCatch(call.slug, call.id, error)
      [] call.op = "getAsset" -> getAssetCatch(call.id, error)
      [] call.op = "getAssetByFilename" -> getAssetByFilenameCatch(call.id, error)
      [] OTHER -> error

\* a call is made on a client the caller holds; it takes the first free
\* slot, and the caller awaits each call before making the next one
MayCall(c) ==
    /\ ctor = <<>>
    /\ \A d \in Calls : pc[d] = "idle"
    /\ \A d \in Calls : d >= c

\* a call of an operation, up to the point where it suspends at its await
Call(c) ==
    /\ pc[c] = "idle"
    /\ MayCall(c)
    /\ \E client \in clients, call \in HttpCalls :
          LET sent == Send(client, call)
          IN  /\ callOf' = [callOf EXCEPT ![c] = call]
              /\ target' = [target EXCEPT ![c] = <<client>>]
              /\ wire' = [wire EXCEPT ![c] = Append(@, sent.req)]
              /\ info' = [info EXCEPT ![c] = <<sent.requestInfo>>]
    /\ pc' = [pc EXCEPT ![c] = "awaiting"]
    /\ UNCHANGED <<clients, ctor, exch, result>>

\* a faulty pipeline, which sends the request once more when the first
\* exchange fails without a response
SettleRetrying(c, outcome) ==
    /\ pc[c] = "awaiting"
    /\ IF ~outcome.ok /\ ~Truthy(outcome.response) /\ Len(wire[c]) = 1
       THEN /\ wire' = [wire EXCEPT ![c] = Append(@, wire[c][1])]
            /\ UNCHANGED <<pc, exch, result>>
       ELSE /\ pc' = [pc EXCEPT ![c] = "settled"]
            /\ exch' = [exch EXCEPT ![c] = <<outcome>>]
            /\ result' = [result EXCEPT ![c] =
                  IF outcome.ok
                  THEN [returned |-> <<outcome.response.body>>, raised |-> <<>>,
                        thrown |-> <<>>]
                  ELSE LET raised == catchError(outcome, info[c][1], 1)
                       IN  [returned |-> <<>>, raised |-> <<raised>>,
                            thrown |-> <<Rethrow(callOf[c], raised)>>]]
            /\ UNCHANGED wire
    /\ UNCHANGED <<clients, ctor, callOf, target, info>>

\* a faulty pipeline, which drops the client's token when the backend
\* answers 401
SettleDroppingToken(c, outcome) ==
    /\ pc[c] = "awaiting"
    /\ pc' = [pc EXCEPT ![c] = "settled"]
    /\ exch' = [exch EXCEPT ![c] = <<outcome>>]
    /\ result' = [result EXCEPT ![c] =
          IF outcome.ok
          THEN [returned |-> <<outcome.response.body>>, raised |-> <<>>,
                thrown |-> <<>>]
          ELSE LET raised == catchError(outcome, info[c][1], 1)
               IN  [returned |-> <<>>, raised |-> <<raised>>,
                    thrown |-> <<Rethrow(callOf[c], raised)>>]]
    /\ clients' = IF ~outcome.ok /\ Get(outcome.response, "status") = Num(401)
                  THEN {[client EXCEPT !.accessToken = Str("")] : client \in clients}
                  ELSE clients
    /\ UNCHANGED <<ctor, callOf, target, wire, info>>

\* the call resumes with the outcome of its exchange and runs to its end
Settle(c, outcome) ==
    /\ pc[c] = "awaiting"
    /\ pc' = [pc EXCEPT ![c] = "settled"]
    /\ exch' = [exch EXCEPT ![c] = <<outcome>>]
    /\ result' = [result EXCEPT ![c] =
          IF outcome.ok
          THEN [returned |-> <<outcome.response.body>>, raised |-> <<>>,
                thrown |-> <<>>]
          ELSE LET raised == catchError(outcome, info[c][1], 1)
               IN  [returned |-> <<>>, raised |-> <<raised>>,
                    thrown |-> <<Rethrow(callOf[c], raised)>>]]
    /\ UNCHANGED <<clients, ctor, callOf, target, wire, info>>

Outcome(ok, response, code, timeout, message) ==
    [ok |-> ok, response |-> response, code |-> code, timeout |-> timeout,
     message |-> message]

\* the backend answers with a success status
Succeed(c) ==
    /\ pc[c] = "awaiting"
    /\ \E body \in SuccessBodies :
        Settle(c, Outcome(TRUE, [t |-> "object", status |-> Num(200), body |-> body,
                                 text |-> Undef],
                          Undef, Undef, Undef))

\* the backend answers with an error status
FailHttp(c) ==
    /\ pc[c] = "awaiting"
    /\ \E status \in ErrorStatuses, b \in ErrorBodies, message \in HttpMessages :
        Settle(c, Outcome(FALSE, [t |-> "object", status |-> Num(status),
                                  body |-> b.body, text |-> b.text],
                          Undef, Undef, message))

\* the timer set by request.timeout(ms) fires before a response arrives
Timeout(c) ==
    /\ pc[c] = "awaiting"
    /\ wire[c][1].timeout # <<>>
    /\ Settle(c, Outcome(FALSE, Undef, Str("ECONNABORTED"), wire[c][1].timeout[1],
                         Str("Timeout exceeded")))

\* the exchange fails in the transport, without a response
FailTransport(c) ==
    /\ pc[c] = "awaiting"
    /\ \E code \in TransportCodes, timeout \in {Undef, Bool(TRUE)},
          message \in TransportMessages :
        Settle(c, Outcome(FALSE, Undef, code, timeout, message))

\* client.validateConfiguration(), a synchronous call
Validate(c) ==
    /\ pc[c] = "idle"
    /\ MayCall(c)
    /\ \E client \in clients :
          /\ target' = [target EXCEPT ![c] = <<client>>]
          /\ result' = [result EXCEPT ![c] =
                LET thrown == validateConfiguration(client)
                IN  [returned |-> IF thrown = <<>> THEN <<Undef>> ELSE <<>>,
                     raised |-> thrown, thrown |-> thrown]]
    /\ callOf' = [callOf EXCEPT ![c] =
                     Shape("validateConfiguration", "", "", Undef, Undef, Undef, Undef)]
    /\ pc' = [pc EXCEPT ![c] = "settled"]
    /\ UNCHANGED <<clients, ctor, wire, info, exch>>

\* client.getDebugInfo(), a synchronous call
GetDebugInfo(c) ==
    /\ pc[c] = "idle"
    /\ MayCall(c)
    /\ \E client \in clients :
          /\ target' = [target EXCEPT ![c] = <<client>>]
          /\ result' = [result EXCEPT ![c] =
                [returned |-> <<getDebugInfo(client)>>, raised |-> <<>>,
                 thrown |-> <<>>]]
    /\ callOf' = [callOf EXCEPT ![c] =
                     Shape("getDebugInfo", "", "", Undef, Undef, Undef, Undef)]
    /\ pc' = [pc EXCEPT ![c] = "settled"]
    /\ UNCHANGED <<clients, ctor, wire, info, exch>>

\* the caller takes the result; the slot is free for the next call
Return(c) ==
    /\ pc[c] = "settled"
    /\ pc' = [pc EXCEPT ![c] = "idle"]
    /\ callOf' = [callOf EXCEPT ![c] = NoCall]
    /\ target' = [target EXCEPT ![c] = <<>>]
    /\ wire' = [wire EXCEPT ![c] = <<>>]
    /\ info' = [info EXCEPT ![c] = <<>>]
    /\ exch' = [exch EXCEPT ![c] = <<>>]
    /\ result' = [result EXCEPT ![c] = NoResult]
    /\ UNCHANGED <<clients, ctor>>

Next ==
    \/ CreateClient
    \/ NewApiClient
    \/ Constructed
    \/ \E c \in Calls : Call(c)
    \/ \E c \in Calls : Succeed(c)
    \/ \E c \in Calls : FailHttp(c)
    \/ \E c \in Calls : Timeout(c)
    \/ \E c \in Calls : FailTransport(c)
    \/ \E c \in Calls : Validate(c)
    \/ \E c \in Calls : GetDebugInfo(c)
    \/ \E c \in Calls : Return(c)

Spec == Init /\ [][Next]_vars

(***************************************************************************)
(* Concurrent calls on one client: the caller makes calls without awaiting *)
(* the earlier ones, so that several calls are suspended at their await at *)
(* once and their exchanges end in any order.                              *)
(***************************************************************************)
ConcurrentCalls ==
    {call \in HttpCalls : call.op \in {"request", "getCollection", "uploadAsset"}}

ConcurrentOutcomes ==
    {Outcome(TRUE, [t |-> "object", status |-> Num(200),
                    body |-> [t |-> "object", data |-> Str("payload")],
                    text |-> Undef],
             Undef, Undef, Undef),
     Outcome(FALSE, [t |-> "object", status |-> Num(404),
                     body |-> [t |-> "object", message |-> Str("Bad token")],
                     text |-> Str("{\"message\":\"Bad token\"}")],
             Undef, Undef, Str("Unsuccessful HTTP response")),
     Outcome(FALSE, [t |-> "object", status |-> Num(500), body |-> Null,
                     text |-> Str("null")],
             Undef, Undef, Str("Unsuccessful HTTP response")),
     Outcome(FALSE, Undef, Str("ECONNREFUSED"), Undef, Str("socket hang up"))}

\* one client has been constructed
InitConcurrent ==
    /\ clients \in {{ApiClient([basePath |-> <<"h", "/">>,
                                accessToken |-> cr.apiToken,
                                projectId |-> cr.projectId,
                                timeout |-> cr.timeout])} : cr \in Credentials}
    /\ ctor = <<>>
    /\ pc = [c \in Calls |-> "idle"]
    /\ callOf = [c \in Calls |-> NoCall]
    /\ target = [c \in Calls |-> <<>>]
    /\ wire = [c \in Calls |-> <<>>]
    /\ info = [c \in Calls |-> <<>>]
    /\ exch = [c \in Calls |-> <<>>]
    /\ result = [c \in Calls |-> NoResult]

\* a call of an operation, made while other calls may be in flight
CallConcurrent(c) ==
    /\ pc[c] = "idle"
    /\ \E client \in clients, call \in ConcurrentCalls :
          LET sent == Send(client, call)
          IN  /\ callOf' = [callOf EXCEPT ![c] = call]
              /\ target' = [target EXCEPT ![c] = <<client>>]
              /\ wire' = [wire EXCEPT ![c] = Append(@, sent.req)]
              /\ info' = [info EXCEPT ![c] = <<sent.requestInfo>>]
    /\ pc' = [pc EXCEPT ![c] = "awaiting"]
    /\ UNCHANGED <<clients, ctor, exch, result>>

\* the exchange of a call in flight ends
EndExchange(c) ==
    /\ pc[c] = "awaiting"
    /\ \E outcome \in ConcurrentOutcomes : Settle(c, outcome)

NextConcurrent ==
    \/ \E c \in Calls : CallConcurrent(c)
    \/ \E c \in Calls : EndExchange(c)
    \/ \E c \in Calls : Timeout(c)
    \/ \E c \in Calls : Return(c)

SpecConcurrent == InitConcurrent /\ [][NextConcurrent]_vars

(***************************************************************************)
(* Properties.                                                             *)
(***************************************************************************)
\* the calls that have ended with an exchange that failed with a response
HttpFailed(c) ==
    /\ pc[c] = "settled"
    /\ exch[c] # <<>>
    /\ ~exch[c][1].ok
    /\ Truthy(exch[c][1].response)

\* the calls that have ended with an exchange that failed without a response
TransportFailed(c) ==
    /\ pc[c] = "settled"
    /\ exch[c] # <<>>
    /\ ~exch[c][1].ok
    /\ ~Truthy(exch[c][1].response)

StatusOf(c) == exch[c][1].response.status.n

\* the error class README.md lists for a status
ClassOfStatus(s) ==
    CASE s = 401 -> "AuthenticationError"
      [] s = 403 -> "AuthorizationError"
      [] s = 404 -> "NotFoundError"
      [] s = 422 -> "ValidationError"
      [] s = 429 -> "RateLimitError"
      [] s \in {500, 502, 503, 504} -> "ServerError"
      [] OTHER -> "ElmapiError"

\* C1: a call whose exchange ends with a response of error status s throws the
\* error class of s: AuthenticationError for 401, AuthorizationError for 403,
\* NotFoundError for 404, ValidationError for 422, RateLimitError for 429,
\* ServerError for 500, 502, 503 and 504, and for any other status a plain
\* ElmapiError whose statusCode is s.
C1_StatusDecidesClass ==
    \A c \in Calls :
        HttpFailed(c) =>
            LET e == result[c].thrown[1]
            IN  /\ e.name = ClassOfStatus(StatusOf(c))
                /\ e.name = "ElmapiError" => e.statusCode = Num(StatusOf(c))

\* the label of the NotFoundError a resource-aware operation throws
LabelOf(call) ==
    CASE call.op = "getCollection" -> "Collection '" \o call.slug \o "'"
      [] call.op = "getEntry" ->
            "Entry '" \o call.id \o "' in collection '" \o call.slug \o "'"
      [] call.op = "getAsset" -> "Asset '" \o call.id \o "'"
      [] call.op = "getAssetByFilename" ->
            "Asset with filename '" \o call.id \o "'"
      [] OTHER -> "Resource"

ResourceAware == {"getCollection", "getEntry", "getAsset", "getAssetByFilename"}

\* C2: when the backend answers 404, getCollection, getEntry, getAsset and
\* getAssetByFilename throw a NotFoundError with the message '<label> not
\* found.' for the label of the resource asked for; it is a new instance that
\* carries the requestInfo of the error the request raised.
C2_NotFoundRelabelled ==
    \A c \in Calls :
        (HttpFailed(c) /\ StatusOf(c) = 404 /\ callOf[c].op \in ResourceAware) =>
            LET e == result[c].thrown[1]
                raised == result[c].raised[1]
            IN  /\ e.name = "NotFoundError"
                /\ e.message = LabelOf(callOf[c]) \o " not found."
                /\ e.message # "Resource not found."
                /\ e.inst # raised.inst
                /\ e.requestInfo = raised.requestInfo
                /\ e.requestInfo = info[c][1]

HeaderValues(req, name) == {h[2] : h \in {g \in req.headers : g[1] = name}}

\* C3: every request sent, by request() and by uploadAsset(), has a project-id
\* header with the client's project identifier, and has an Authorization
\* header, 'Bearer <token>', exactly when the client has a non-empty token.
C3_StandardHeaders ==
    \A c \in Calls : \A i \in DOMAIN wire[c] :
        LET req == wire[c][i]
            client == target[c][1]
        IN  /\ HeaderValues(req, "project-id") = {client.projectId.s}
            /\ IF client.accessToken.s # ""
               THEN HeaderValues(req, "Authorization")
                        = {"Bearer " \o client.accessToken.s}
               ELSE HeaderValues(req, "Authorization") = {}

\* C3 witness: a multipart upload made on a client that has a token is on
\* the wire with both headers
C3_Witness ==
    \E c \in Calls :
        /\ wire[c] # <<>>
        /\ callOf[c].op = "uploadAsset"
        /\ target[c][1].accessToken.s = "tok"
        /\ HeaderValues(wire[c][1], "Authorization") = {"Bearer tok"}
        /\ HeaderValues(wire[c][1], "project-id") = {"p1"}

\* C4: deleteEntry and deleteAsset send a DELETE request whose query has the
\* parameter force, with the value given, exactly when force is given and
\* truthy; otherwise the query has no parameter at all.
C4_ForceOnlyWhenTruthy ==
    \A c \in Calls : \A i \in DOMAIN wire[c] :
        callOf[c].op \in {"deleteEntry", "deleteAsset"} =>
            LET req == wire[c][i]
                force == callOf[c].force
            IN  /\ req.method = "DELETE"
                /\ Len(req.query) = 1
                /\ IF force \in {Bool(TRUE), Num(1)}
                   THEN req.query[1] = [t |-> "object", force |-> force]
                   ELSE /\ force \in {Undef, Bool(FALSE)}
                        /\ "force" \notin DOMAIN req.query[1]
                        /\ req.query[1] = EmptyObj

\* C4 witness: a deleteAsset call with force = true has sent its request
C4_Witness ==
    \E c \in Calls :
        /\ pc[c] = "awaiting"
        /\ callOf[c].op = "deleteAsset"
        /\ callOf[c].force = Bool(TRUE)
        /\ wire[c][1].query[1].force = Bool(TRUE)

\* the constraints a configuration violates: an empty base path (empty once
\* its trailing slashes are stripped, as ClientConfig defines the base path),
\* an empty project identifier
Violations(noBasePath, noProjectId) ==
    (IF noBasePath THEN {"Base path is required"} ELSE {})
    \cup (IF noProjectId THEN {"Project ID is required"} ELSE {})

OnlySlashes(url) == \A j \in DOMAIN url : url[j] = "/"

\* thrown is a ValidationError whose details.errors lists exactly expected
ReportsAll(thrown, expected) ==
    /\ Len(thrown) = 1
    /\ thrown[1].name = "ValidationError"
    /\ {thrown[1].details.errors[j] : j \in DOMAIN thrown[1].details.errors}
          = expected
    /\ Len(thrown[1].details.errors) = Cardinality(expected)

\* C5: createClient and validateConfiguration fail with a ValidationError
\* whose details.errors lists every violated constraint: both messages when
\* base path and project id are both empty, exactly the one when one is
\* empty; with neither empty nothing is thrown and createClient returns a
\* client.
C5_EveryViolationReported ==
    /\ \A i \in DOMAIN ctor :
          ctor[i].via = "createClient" =>
              LET expected == Violations(OnlySlashes(ctor[i].baseUrl),
                                         ctor[i].projectId.s = "")
              IN  IF expected = {}
                  THEN ctor[i].thrown = <<>> /\ Cardinality(clients) = 1
                  ELSE ReportsAll(ctor[i].thrown, expected) /\ clients = {}
    /\ \A c \in Calls :
          (pc[c] = "settled" /\ callOf[c].op = "validateConfiguration") =>
              LET expected == Violations(target[c][1].basePath = <<>>,
                                         target[c][1].projectId.s = "")
              IN  IF expected = {}
                  THEN result[c].thrown = <<>> /\ result[c].returned = <<Undef>>
                  ELSE ReportsAll(result[c].thrown, expected)

\* C5 witness: createClient was called with an empty base path and an empty
\* project id, and threw an error that lists two violations
C5_Witness ==
    \E i \in DOMAIN ctor :
        /\ ctor[i].via = "createClient"
        /\ ctor[i].baseUrl = <<>>
        /\ ctor[i].projectId = Str("")
        /\ Len(ctor[i].thrown) = 1
        /\ Len(ctor[i].thrown[1].details.errors) = 2

\* C6: every client instance that exists has a non-empty basePath and a
\* non-empty projectId, and no request is sent with an empty project-id
\* header.
C6_NoEmptyConfiguration ==
    /\ \A client \in clients :
          client.basePath # <<>> /\ client.projectId.s # ""
    /\ \A c \in Calls : \A i \in DOMAIN wire[c] :
          HeaderValues(wire[c][i], "project-id") # {""}

\* C7: whatever the body of the failed response is, the call throws an
\* instance of ElmapiError with a non-empty message.
C7_AlwaysElmapiError ==
    \A c \in Calls :
        HttpFailed(c) =>
            /\ result[c].thrown[1].name \in ElmapiNames
            /\ result[c].thrown[1].message # ""

ConnectivityMessage ==
    "Unable to connect to the server. Please check your internet connection and the API URL."

\* the error of a call whose exchange failed without a response; other is the
\* message of the NetworkError for a failure that is neither a timeout nor a
\* connectivity failure
TransportFailureClass(c, other) ==
    LET failure == exch[c][1]
        e == result[c].thrown[1]
    IN  /\ e.statusCode = Undef
        /\ IF failure.code = Str("ECONNABORTED") \/ Truthy(failure.timeout)
           THEN /\ e.name = "TimeoutError"
                /\ e.message = "Request timed out after "
                                  \o ToString(target[c][1].timeout.n) \o "ms."
           ELSE IF failure.code \in {Str("ENOTFOUND"), Str("ECONNREFUSED")}
           THEN e.name = "NetworkError" /\ e.message = ConnectivityMessage
           ELSE e.name = "NetworkError" /\ e.message = other

\* C8 as stated: a timeout (code ECONNABORTED or timeout flag) gives a
\* TimeoutError with the client's timeout in its message, else ENOTFOUND and
\* ECONNREFUSED give a NetworkError with the connectivity message, else a
\* NetworkError with the transport's own message; none has a statusCode.
C8_TransportsOwnMessage ==
    \A c \in Calls :
        TransportFailed(c) => TransportFailureClass(c, exch[c][1].message.s)

\* C8, amended: as stated, but a failure that is neither a timeout nor a
\* connectivity failure gives a NetworkError with the transport's own message
\* when that is not empty, and with 'Network error occurred' when it is.
C8_TransportFailureClass ==
    \A c \in Calls :
        TransportFailed(c) =>
            TransportFailureClass(c, IF exch[c][1].message.s # ""
                                     THEN exch[c][1].message.s
                                     ELSE "Network error occurred")

\* C8 witness: a failure that is a timeout and a connectivity failure at once
\* has ended a call with a TimeoutError
C8_Witness ==
    \E c \in Calls :
        /\ TransportFailed(c)
        /\ exch[c][1].code = Str("ENOTFOUND")
        /\ exch[c][1].timeout = Bool(TRUE)
        /\ result[c].thrown[1].name = "TimeoutError"
        /\ result[c].thrown[1].message = "Request timed out after 5000ms."

\* C9: a call of an operation that goes to the backend sends exactly one
\* HTTP request over its lifetime, whatever the outcome of the exchange and
\* also when a NotFoundError is relabelled; a slot without a call has sent
\* nothing.
C9_OneExchangePerCall ==
    \A c \in Calls :
        /\ pc[c] = "idle" => wire[c] = <<>>
        /\ pc[c] = "awaiting" => Len(wire[c]) = 1
        /\ (pc[c] = "settled"
               /\ callOf[c].op \notin {"validateConfiguration", "getDebugInfo"}) =>
              Len(wire[c]) = 1

\* C9 witness: getCollection has ended with a relabelled NotFoundError, a
\* second error instance, after one request
C9_Witness ==
    \E c \in Calls :
        /\ HttpFailed(c)
        /\ callOf[c].op = "getCollection"
        /\ result[c].thrown[1].message = "Collection 'blog' not found."
        /\ result[c].thrown[1].inst = 2
        /\ Len(wire[c]) = 1

\* C10: the configured timeout is applied to the exchange of every
\* operation, uploadAsset included.
C10_TimeoutOnEveryExchange ==
    \A c \in Calls : \A i \in DOMAIN wire[c] :
        wire[c][i].timeout = <<target[c][1].timeout>>

\* C11: once a client is constructed, no operation called on it, whether it
\* succeeds or fails, changes its basePath, accessToken, projectId or
\* timeout, and getDebugInfo reports the values of the client as constructed.
C11_ConfigurationFixed ==
    /\ [][clients # {} => clients' = clients]_vars
    /\ [](\A c \in Calls :
            (pc[c] = "settled" /\ callOf[c].op = "getDebugInfo") =>
                /\ target[c][1] \in clients
                /\ result[c].thrown = <<>>
                /\ result[c].returned
                     = <<[t |-> "object",
                          basePath |-> target[c][1].basePath,
                          hasAccessToken |-> Bool(target[c][1].accessToken.s # ""),
                          projectId |-> target[c][1].projectId,
                          timeout |-> target[c][1].timeout]>>)

\* C11 witness: a call on a client with a token has failed with status 401
\* and the client still has its token
C11_Witness ==
    \E c \in Calls :
        /\ HttpFailed(c)
        /\ StatusOf(c) = 401
        /\ target[c][1].accessToken = Str("tok")
        /\ target[c][1] \in clients

\* the HTTP method the operation table gives for an operation
MethodOf(call) ==
    CASE call.op \in {"createEntry", "uploadAsset"} -> "POST"
      [] call.op = "updateEntry" -> "PUT"
      [] call.op = "patchEntry" -> "PATCH"
      [] call.op \in {"deleteEntry", "deleteAsset"} -> "DELETE"
      [] OTHER -> "GET"

\* the path the operation table gives for an operation and its arguments
PathOf(call) ==
    CASE call.op = "request" -> <<"/", "custom">>
      [] call.op = "getProject" -> <<"/">>
      [] call.op = "getCollections" -> <<"/", "collections">>
      [] call.op = "getCollection" -> <<"/", "collections", "/", call.slug>>
      [] call.op \in {"getEntries", "createEntry"} -> <<"/", call.slug>>
      [] call.op \in {"getEntry", "updateEntry", "patchEntry", "deleteEntry"} ->
            <<"/", call.slug, "/", call.id>>
      [] call.op \in {"getAssets", "uploadAsset"} -> <<"/", "files">>
      [] call.op \in {"getAsset", "deleteAsset"} -> <<"/", "files", "/", call.id>>
      [] call.op = "getAssetByFilename" -> <<"/", "files", "/", "name", "/", call.id>>

\* the query parameters of a call
ParamsOf(call) ==
    CASE call.op \in {"deleteEntry", "deleteAsset"} ->
            IF call.force \in {Bool(TRUE), Num(1)}
            THEN [t |-> "object", force |-> call.force]
            ELSE EmptyObj
      [] call.params = Undef -> EmptyObj
      [] OTHER -> call.params

\* the body of a call: for an upload, the file name and the metadata
DataOf(call) ==
    IF call.op = "uploadAsset"
    THEN [t |-> "object",
          file |-> IF "name" \in DOMAIN call.file THEN call.file.name ELSE Str("file"),
          metadata |-> call.data]
    ELSE call.data

\* the requestInfo of the call in slot c, from its arguments and its client
OwnRequestInfo(c) ==
    [t |-> "object",
     method |-> MethodOf(callOf[c]),
     url |-> target[c][1].basePath \o PathOf(callOf[c]),
     params |-> ParamsOf(callOf[c]),
     data |-> DataOf(callOf[c]),
     timeout |-> target[c][1].timeout]

\* C12: under any interleaving of concurrent calls on one client, the error
\* a call throws carries the requestInfo of that very call, and two calls
\* with the same arguments, client and exchange outcome end with the same
\* result whatever the other calls in flight did.
C12_OwnRequestInfo ==
    /\ \A c \in Calls :
          (pc[c] = "settled" /\ result[c].thrown # <<>>) =>
              result[c].thrown[1].requestInfo = OwnRequestInfo(c)
    /\ \A c, d \in Calls :
          (/\ pc[c] = "settled" /\ pc[d] = "settled"
           /\ callOf[c] = callOf[d] /\ target[c] = target[d] /\ exch[c] = exch[d]) =>
              result[c] = result[d]

\* C13: an operation throws the very error its request raised, same
\* instance and same fields, except that a resource-aware operation
\* replaces a NotFoundError; in the other operations a NotFoundError
\* passes through too.
C13_ErrorsPassThrough ==
    \A c \in Calls :
        (pc[c] = "settled" /\ result[c].raised # <<>>) =>
            \/ /\ callOf[c].op \in ResourceAware
               /\ result[c].raised[1].name = "NotFoundError"
            \/ result[c].thrown = result[c].raised

\* C13 witness: getEntry has thrown the AuthenticationError of its request,
\* and it is the first error object of the call
C13_Witness ==
    \E c \in Calls :
        /\ HttpFailed(c)
        /\ callOf[c].op = "getEntry"
        /\ result[c].raised[1].name = "AuthenticationError"
        /\ result[c].thrown[1].name = "AuthenticationError"
        /\ result[c].thrown[1].inst = 1

\* base is url without its trailing slashes
IsStripped(url, base) ==
    /\ Len(base) <= Len(url)
    /\ SubSeq(url, 1, Len(base)) = base
    /\ base # <<>> => base[Len(base)] # "/"
    /\ \A j \in (Len(base) + 1) .. Len(url) : url[j] = "/"

\* C14: the basePath of a client is the base URL it was constructed with,
\* without its trailing slashes; stripping it again changes nothing, and a
\* base URL without a trailing slash is kept as it is.  Every request goes
\* to basePath followed by the path of its operation, with the method of
\* its operation, and the requestInfo records that method and URL.
C14_BasePathAndUrls ==
    /\ \A j \in DOMAIN ctor : \A client \in clients :
          /\ IsStripped(ctor[j].baseUrl, client.basePath)
          /\ (ctor[j].baseUrl = <<>> \/ ctor[j].baseUrl[Len(ctor[j].baseUrl)] # "/")
                => client.basePath = ctor[j].baseUrl
    /\ \A client \in clients :
          ApiClient([basePath |-> client.basePath,
                     accessToken |-> client.accessToken,
                     projectId |-> client.projectId,
                     timeout |-> client.timeout]).basePath = client.basePath
    /\ \A c \in Calls :
          wire[c] # <<>> =>
              LET url == target[c][1].basePath \o PathOf(callOf[c])
              IN  /\ wire[c][1].url = url
                  /\ wire[c][1].method = MethodOf(callOf[c])
                  /\ info[c][1].url = url
                  /\ info[c][1].method = MethodOf(callOf[c])
                  /\ \A j \in DOMAIN result[c].thrown :
                        result[c].thrown[j].name \in ElmapiNames =>
                            /\ result[c].thrown[j].requestInfo.url = url
                            /\ result[c].thrown[j].requestInfo.method
                                 = MethodOf(callOf[c])

\* C14 witness: a client whose basePath is "h" has sent the request of
\* getAssetByFilename('f.png')
C14_Witness ==
    \E c \in Calls :
        /\ pc[c] = "awaiting"
        /\ callOf[c].op = "getAssetByFilename"
        /\ target[c][1].basePath = <<"h">>
        /\ wire[c][1].url = <<"h", "/", "files", "/", "name", "/", "f.png">>
        /\ wire[c][1].method = "GET"

\* C15: the request of uploadAsset carries the headers request() sets
\* (Authorization exactly when the client has a token, project-id, and
\* Accept: application/json) and a multipart payload with the file and, when
\* metadata is given, its JSON text; for the outcome of its exchange it
\* returns the body or throws the error request() gives for that outcome.
C15_UploadFollowsRequest ==
    \A c \in Calls :
        (callOf[c].op = "uploadAsset" /\ wire[c] # <<>>) =>
            /\ wire[c][1].headers
                 = request(target[c][1], "POST", <<"/", "files">>, Undef, Undef).req.headers
            /\ wire[c][1].attach = <<callOf[c].file>>
            /\ (wire[c][1].field # <<>>) <=> (callOf[c].data # Undef)
            /\ wire[c][1].body = <<>>
            /\ (pc[c] = "settled" /\ exch[c][1].ok) =>
                  result[c].returned = <<exch[c][1].response.body>>
            /\ (pc[c] = "settled" /\ ~exch[c][1].ok) =>
                  /\ Len(result[c].thrown) = 1
                  /\ result[c].thrown[1].name
                       = catchError(exch[c][1], OwnRequestInfo(c), 1).name

\* the text of a response body that is not structured data: the body when
\* it is a string, else the response text, where JSON.parse rejects it
RawText(response) ==
    LET text == IF response.body.t = "string" THEN response.body ELSE response.text
    IN  IF text.t = "string" /\ text.s # "" /\ ~JSONparse(text.s).ok
        THEN <<text.s>>
        ELSE <<>>

\* the first non-empty of the body's message, the body's error, the
\* transport's message and the fixed text
FirstMessage(error) ==
    LET body == error.response.body
        field(k) == IF body.t = "object" /\ k \in DOMAIN body THEN body[k] ELSE Str("")
    IN  IF field("message") # Str("") THEN field("message").s
        ELSE IF field("error") # Str("") THEN field("error").s
        ELSE IF error.message # Str("") THEN error.message.s
        ELSE "An unknown error occurred"

\* C16: for every error status, the error request() raises for a failed
\* exchange with a response has as its message the raw text of a body that
\* is not structured data, and else the first non-empty of the body's
\* message, the body's error, the transport's message and 'An unknown error
\* occurred'.
C16_MessageExtraction ==
    \A c \in Calls :
        HttpFailed(c) =>
            /\ Len(result[c].raised) = 1
            /\ result[c].raised[1].message
                 = IF RawText(exch[c][1].response) # <<>>
                   THEN RawText(exch[c][1].response)[1]
                   ELSE FirstMessage(exch[c][1])

\* the field k of the response body of the call in slot c
BodyField(c, k) ==
    LET body == exch[c][1].response.body
    IN  IF body.t = "object" /\ k \in DOMAIN body THEN body[k] ELSE Undef

\* the statusCode and code of each typed error class
FixedFields ==
    [AuthenticationError |-> <<401, "AUTHENTICATION_ERROR">>,
     AuthorizationError |-> <<403, "AUTHORIZATION_ERROR">>,
     NotFoundError |-> <<404, "NOT_FOUND">>,
     ValidationError |-> <<422, "VALIDATION_ERROR">>,
     RateLimitError |-> <<429, "RATE_LIMIT_ERROR">>,
     ServerError |-> <<500, "SERVER_ERROR">>]

\* C17: a typed error for a failed exchange with a response has the
\* statusCode and code of its class whatever the response says (a
\* ServerError 500 and 'SERVER_ERROR' also for 502, 503 and 504) and no
\* details, except that a ValidationError has the details of the body; only
\* the generic ElmapiError has the status of the response and the code and
\* details of the body.
C17_FieldsFixedByVariant ==
    \A c \in Calls :
        HttpFailed(c) =>
            \A e \in {result[c].raised[j] : j \in DOMAIN result[c].raised}
                     \cup {result[c].thrown[j] : j \in DOMAIN result[c].thrown} :
                /\ e.name \in DOMAIN FixedFields =>
                      /\ e.statusCode = Num(FixedFields[e.name][1])
                      /\ e.code = Str(FixedFields[e.name][2])
                      /\ e.details = IF e.name = "ValidationError"
                                     THEN BodyField(c, "details")
                                     ELSE Undef
                /\ e.name = "ElmapiError" =>
                      /\ e.statusCode = exch[c][1].response.status
                      /\ e.code = BodyField(c, "code")
                      /\ e.details = BodyField(c, "details")

\* C17 witness: the backend has answered 502 with a body that has a code and
\* details, and the call has thrown a ServerError with statusCode 500, code
\* 'SERVER_ERROR' and no details
C17_Witness ==
    \E c \in Calls :
        /\ HttpFailed(c)
        /\ StatusOf(c) = 502
        /\ BodyField(c, "code") = Str("E42")
        /\ BodyField(c, "details") = Str("title is required")
        /\ result[c].thrown[1].name = "ServerError"
        /\ result[c].thrown[1].statusCode = Num(500)
        /\ result[c].thrown[1].code = Str("SERVER_ERROR")
        /\ result[c].thrown[1].details = Undef

=============================================================================
